---- MODULE Spec2Model ----
(***************************************************************************)
(* Model of grafana_collector/report/report.go: one Report object, its     *)
(* Generate call (GetDashboard, MkdirAll, renderPNGsParallel with its      *)
(* worker goroutines, renderPDF) and Clean.                                *)
(***************************************************************************)
EXTENDS Integers, Sequences, FiniteSets

\* ---------------------------------------------------------------- bounds
\* Spec: the largest dashboard, and the most renderPNG calls that fail in a run.
MaxPanels == 4
MaxFailures == 2
\* SpecPool: a dashboard with more panels than workers, and the most renderPNG
\* calls that fail in a run.
PoolPanels == 6
PoolFailures == 1

\* SpecLive: dashboards of 0..LivePanels panels, any of which may fail.
LivePanels == 3

\* ------------------------------------------------------------- constants
\* Mutant of workers: one goroutine more than the pool is meant to hold.
workers_Six == 5 + 1

\* report.go:146  workers = 5
workers == 5

Workers == 1..workers

\* The ordered panel list of a dashboard with n panels.  Panel IDs are unique
\* and need not follow the list order: here they descend.
PanelsOf(n) == [i \in 1..n |-> n + 1 - i]

\* The ways one renderPNG call can end (report.go:180-199): success, or an
\* error from GetPanelPng, os.Create or io.Copy.
Outcomes == {"ok", "get", "create", "copy"}

VARIABLES
    remote,     \* the panel list of the dashboard the Grafana server holds
    budget,     \* how many more renderPNG calls the environment will make fail
    pc,         \* position of the caller/coordinator in Generate
    ran,        \* the stages Generate has called so far, in call order
    dash,       \* dash.Panels: sequence of panel IDs (<<>> before GetDashboard)
    tmpDir,     \* TRUE iff rep.tmpDir exists on disk
    imgDirOk,   \* TRUE iff rep.imgDirPath() exists on disk
    files,      \* image file path -> "none" | "partial" | "full"
    pdfFile,    \* TRUE iff rep.pdfPath() exists on disk
    panels,     \* the panels channel: buffered panel IDs
    panelsClosed,
    errs,       \* the errs channel: buffered errors
    errsClosed,
    errsCap,    \* capacity of errs
    wg,         \* the WaitGroup counter
    wpc,        \* worker -> "none" | "range" | "render" | "blocked" | "panic" | "done"
    wp,         \* worker -> panel ID being rendered (0 if none)
    attempts,   \* panel ID -> number of renderPNG calls made for it
    logged,     \* panel ID -> the errors logged for it by the workers, in order
    failures,   \* number of renderPNG calls that failed
    spawned,    \* renderPNGsParallel's loop variable i: goroutines started
    pngResult,  \* renderPNGsParallel's return: [ret |-> returned?, err |-> <<>> (nil) or the error]
    pages,      \* number of pages of the gopdf document
    placed,     \* placements made by renderPDF's loop, in order
    count,      \* renderPDF's counter
    retPdf,     \* Generate returned a non-nil pdf handle
    retErr,     \* Generate's returned error: "none" or the failing stage
    cleanLogged, \* Clean has logged a RemoveAll error
    openBody,   \* response bodies opened by returned renderPNG calls, still open
    openFile,   \* image files opened by returned renderPNG calls, still open
    outOfOrder  \* some renderPNG call returned before one for an earlier panel

vars == <<remote, budget, pc, ran, dash, tmpDir, imgDirOk, files, pdfFile, panels, panelsClosed,
          errs, errsClosed, errsCap, wg, wpc, wp, attempts, logged, failures,
          spawned, pngResult, pages, placed, count, retPdf, retErr, cleanLogged,
          openBody, openFile, outOfOrder>>

fsVars   == <<tmpDir, imgDirOk, files, pdfFile>>
chanVars == <<panels, panelsClosed, errs, errsClosed, errsCap, wg>>
workVars == <<wpc, wp, attempts, logged, failures, spawned>>
pdfVars  == <<pages, placed, count>>
retVars  == <<retPdf, retErr>>
hdlVars  == <<openBody, openFile, outOfOrder>>

PanelIDs == 1..(MaxPanels + PoolPanels)

Digit == <<"0", "1", "2", "3", "4", "5", "6", "7", "8", "9">>

\* fmt's %d of a non-negative int: its decimal digits, most significant first.
RECURSIVE Decimal(_)
Decimal(n) ==
    IF n < 10 THEN Digit[n + 1]
    ELSE Decimal(n \div 10) \o Digit[(n % 10) + 1]

\* report.go:125-127, 85: filepath.Join(rep.tmpDir, imgDir), for the tmpDir
\* "tmp/<uuid>" that new() gave this Report.
imgDirPath == "tmp/uuid" \o "/" \o "images"

\* Mutant of imgFilePath: the file name leaves out the panel ID.
imgFilePath_NoID(p) == imgDirPath \o "/" \o "image" \o ".png"

\* report.go:174-178: filepath.Join(rep.imgDirPath(), Sprintf("image%d.png", p.ID))
imgFilePath(p) == imgDirPath \o "/" \o "image" \o Decimal(p) \o ".png"

\* The paths an image file of the run can have.
Paths == {imgFilePath(p) : p \in PanelIDs}

\* The state after New(): nothing fetched, nothing on disk, no goroutine.
InitReport ==
    /\ pc = "Init"
    /\ ran = <<>>
    /\ dash = <<>>
    /\ tmpDir = FALSE
    /\ imgDirOk = FALSE
    /\ files = [f \in Paths |-> "none"]
    /\ pdfFile = FALSE
    /\ panels = <<>>
    /\ panelsClosed = FALSE
    /\ errs = <<>>
    /\ errsClosed = FALSE
    /\ errsCap = 0
    /\ wg = 0
    /\ wpc = [w \in Workers |-> "none"]
    /\ wp = [w \in Workers |-> 0]
    /\ attempts = [p \in PanelIDs |-> 0]
    /\ logged = [p \in PanelIDs |-> <<>>]
    /\ failures = 0
    /\ spawned = 0
    /\ pngResult = [ret |-> FALSE, err |-> <<>>]
    /\ pages = 0
    /\ placed = <<>>
    /\ count = 0
    /\ retPdf = FALSE
    /\ retErr = "none"
    /\ cleanLogged = FALSE
    /\ openBody = 0
    /\ openFile = 0
    /\ outOfOrder = FALSE

Init ==
    /\ InitReport
    /\ remote \in {PanelsOf(n) : n \in 0..MaxPanels}
    /\ budget = MaxFailures

InitPool ==
    /\ InitReport
    /\ remote = PanelsOf(PoolPanels)
    /\ budget = PoolFailures

InitLive ==
    /\ InitReport
    /\ remote \in {PanelsOf(n) : n \in 0..LivePanels}
    /\ budget = LivePanels

\* Generate returns (nil, err) for the failing stage.
Fail(stage) ==
    /\ pc' = "Failed"
    /\ retPdf' = FALSE
    /\ retErr' = stage

\* Mutant of GetDashboard: the image directory is made before the dashboard
\* is fetched.
GetDashboard_MkdirFirst ==
    /\ pc = "Init"
    /\ ran' = Append(ran, "GetDashboard")
    /\ tmpDir' = TRUE
    /\ imgDirOk' = TRUE
    /\ \/ /\ dash' = remote
          /\ pc' = "DashboardFetched"
          /\ UNCHANGED retVars
       \/ /\ Fail("dashboard")
          /\ UNCHANGED dash
    /\ UNCHANGED <<hdlVars, remote, budget, cleanLogged, files, pdfFile, chanVars, workVars,
                   pngResult, pdfVars>>

\* report.go:93-96
GetDashboard ==
    /\ pc = "Init"
    /\ ran' = Append(ran, "GetDashboard")
    /\ \/ /\ dash' = remote
          /\ pc' = "DashboardFetched"
          /\ UNCHANGED retVars
       \/ /\ Fail("dashboard")
          /\ UNCHANGED dash
    /\ UNCHANGED <<hdlVars, remote, budget, cleanLogged, fsVars, chanVars, workVars, pngResult, pdfVars>>

\* report.go:98-101
MkdirAll ==
    /\ pc = "DashboardFetched"
    /\ ran' = Append(ran, "MkdirAll")
    /\ \/ /\ tmpDir' = TRUE
          /\ imgDirOk' = TRUE
          /\ pc' = "StoreReady"
          /\ UNCHANGED retVars
       \/ \* MkdirAll creates the parents first: a failure may leave tmpDir behind
          /\ Fail("mkdir")
          /\ tmpDir' \in BOOLEAN
          /\ UNCHANGED imgDirOk
    /\ UNCHANGED <<hdlVars, remote, budget, cleanLogged, dash, files, pdfFile, chanVars, workVars, pngResult, pdfVars>>

\* Mutant of StartFetch: the loop that buffers the panels stops one short.
StartFetch_DropLast ==
    /\ pc = "StoreReady"
    /\ ran' = Append(ran, "renderPNGsParallel")
    /\ panels' = SubSeq(dash, 1, Len(dash) - 1)
    /\ panelsClosed' = TRUE
    /\ errs' = <<>>
    /\ errsClosed' = FALSE
    /\ errsCap' = Len(dash)
    /\ wg' = workers
    /\ spawned' = 0
    /\ pc' = "Spawn"
    /\ UNCHANGED <<hdlVars, remote, budget, cleanLogged, dash, fsVars, wpc, wp, attempts,
                   logged, failures, pngResult, pdfVars, retVars>>

\* Mutant of errsCapacity: errs is made with room for one error.
errsCapacity_One(d) == 1

\* report.go:147: errs = make(chan error, len(dash.Panels))
errsCapacity(d) == Len(d)

\* Mutant of wgAdd: the WaitGroup counts one goroutine fewer than are started.
wgAdd_Short == workers - 1

\* report.go:150: wg.Add(workers)
wgAdd == workers

\* Mutant of panelsClosedAfterFill: close(panels) is missing.
panelsClosedAfterFill_Never == FALSE

\* report.go:139: close(panels) once every panel is buffered.
panelsClosedAfterFill == TRUE

\* report.go:135-150: fill and close the panels channel, make errs, wg.Add.
StartFetch ==
    /\ pc = "StoreReady"
    /\ ran' = Append(ran, "renderPNGsParallel")
    /\ panels' = dash
    /\ panelsClosed' = panelsClosedAfterFill
    /\ errs' = <<>>
    /\ errsClosed' = FALSE
    /\ errsCap' = errsCapacity(dash)
    /\ wg' = wgAdd
    /\ spawned' = 0
    /\ pc' = "Spawn"
    /\ UNCHANGED <<hdlVars, remote, budget, cleanLogged, dash, fsVars, wpc, wp, attempts, logged, failures, pngResult,
                   pdfVars, retVars>>

\* report.go:151-162: one iteration of the loop that starts the goroutines.
SpawnWorker ==
    /\ pc = "Spawn"
    /\ spawned < workers
    /\ spawned' = spawned + 1
    /\ wpc' = [wpc EXCEPT ![spawned + 1] = "range"]
    /\ pc' = IF spawned + 1 = workers THEN "Wait" ELSE "Spawn"
    /\ UNCHANGED <<hdlVars, remote, budget, cleanLogged, ran, dash, fsVars, chanVars, wp, attempts, logged, failures,
                   pngResult, pdfVars, retVars>>

\* report.go:154-155: `for p := range panels` receives a panel and the worker
\* calls renderPNG(p).
WorkerReceive(w) ==
    /\ wpc[w] = "range"
    /\ panels # <<>>
    /\ panels' = Tail(panels)
    /\ wp' = [wp EXCEPT ![w] = Head(panels)]
    /\ wpc' = [wpc EXCEPT ![w] = "render"]
    /\ attempts' = [attempts EXCEPT ![Head(panels)] = @ + 1]
    /\ UNCHANGED <<hdlVars, remote, budget, cleanLogged, pc, ran, dash, fsVars, panelsClosed, errs, errsClosed, errsCap,
                   wg, logged, failures, spawned, pngResult, pdfVars, retVars>>

\* report.go:153-154: the range loop ends on the closed, empty channel and the
\* deferred wg.Done() runs.
WorkerExit(w) ==
    /\ wpc[w] = "range"
    /\ panels = <<>>
    /\ panelsClosed
    /\ wpc' = [wpc EXCEPT ![w] = "done"]
    /\ wg' = wg - 1
    /\ UNCHANGED <<hdlVars, remote, budget, cleanLogged, pc, ran, dash, fsVars, panels, panelsClosed, errs, errsClosed,
                   errsCap, wp, attempts, logged, failures, spawned, pngResult,
                   pdfVars, retVars>>

\* report.go:180-199: what renderPNG leaves at imgFilePath(p), given how it ends.
\* os.Create truncates or creates the file; a failed io.Copy leaves it partial.
FileAfter(old, o) ==
    CASE o = "ok"     -> "full"
      [] o = "copy"   -> "partial"
      [] OTHER        -> old

\* Mutant of LogAfter: only the first failure of the run is logged.
LogAfter_First(lg, p, o) ==
    IF \A q \in DOMAIN lg : lg[q] = <<>> THEN [lg EXCEPT ![p] = Append(@, o)] ELSE lg

\* report.go:157: the worker logs the error of panel p.
LogAfter(lg, p, o) == [lg EXCEPT ![p] = Append(@, o)]

\* Mutant of renderPNG: body.Close() is called at the end of the function
\* instead of being deferred, so the early returns skip it.
renderPNG_CloseAtEnd(o) ==
    LET got     == o # "get"
        created == got /\ o # "create"
        copied  == created /\ o # "copy"
    IN  (IF got THEN <<"open body">> ELSE <<>>)
        \o (IF created THEN <<"open file">> ELSE <<>>)
        \o (IF created THEN <<"close file">> ELSE <<>>)
        \o (IF copied THEN <<"close body">> ELSE <<>>)

\* report.go:180-199: the handle operations of one renderPNG call that ends
\* with outcome o.  GetPanelPng opens the body unless it fails (181-184);
\* os.Create opens the file unless it fails (188-191); the deferred Close
\* calls (185, 192) run at every return after them, last deferred first.
renderPNG(o) ==
    LET got     == o # "get"
        created == got /\ o # "create"
    IN  (IF got THEN <<"open body">> ELSE <<>>)
        \o (IF created THEN <<"open file">> ELSE <<>>)
        \o (IF created THEN <<"close file">> ELSE <<>>)
        \o (IF got THEN <<"close body">> ELSE <<>>)

\* How many times event e occurs in the sequence evs.
Occurs(evs, e) == Cardinality({i \in 1..Len(evs) : evs[i] = e})

\* report.go:180-199: the handles one renderPNG call with outcome o has opened
\* and not closed by the time it returns.
LeftOpen ==
    [o \in Outcomes |->
        [body |-> Occurs(renderPNG(o), "open body") - Occurs(renderPNG(o), "close body"),
         file |-> Occurs(renderPNG(o), "open file") - Occurs(renderPNG(o), "close file")]]

\* Panel p comes before panel q in the Dashboard's list.
Before(p, q) ==
    \E i \in 1..Len(dash) : dash[i] = p /\ \E j \in (i + 1)..Len(dash) : dash[j] = q

\* report.go:155-159: renderPNG returns in worker w with outcome o; on an error
\* the worker logs it and sends it on errs.  A send on a full channel blocks
\* (nobody receives before wg.Wait returns); a send on a closed channel panics.
RenderReturn(w, o) ==
    /\ wpc[w] = "render"
    /\ o # "ok" => budget > 0
    /\ budget' = IF o = "ok" THEN budget ELSE budget - 1
    /\ UNCHANGED <<remote, cleanLogged>>
    /\ files' = [files EXCEPT ![imgFilePath(wp[w])] = FileAfter(@, o)]
    /\ openBody' = openBody + LeftOpen[o].body
    /\ openFile' = openFile + LeftOpen[o].file
    /\ outOfOrder' = (outOfOrder \/ \E v \in DOMAIN wpc :
                         wpc[v] = "render" /\ Before(wp[v], wp[w]))
    /\ IF o = "ok"
       THEN /\ wpc' = [wpc EXCEPT ![w] = "range"]
            /\ wp' = [wp EXCEPT ![w] = 0]
            /\ UNCHANGED <<errs, logged, failures>>
       ELSE /\ logged' = LogAfter(logged, wp[w], o)
            /\ failures' = failures + 1
            /\ IF errsClosed
               THEN /\ wpc' = [wpc EXCEPT ![w] = "panic"]
                    /\ UNCHANGED <<errs, wp>>
               ELSE IF Len(errs) < errsCap
               THEN /\ errs' = Append(errs, <<wp[w], o>>)
                    /\ wpc' = [wpc EXCEPT ![w] = "range"]
                    /\ wp' = [wp EXCEPT ![w] = 0]
               ELSE /\ wpc' = [wpc EXCEPT ![w] = "blocked"]
                    /\ UNCHANGED <<errs, wp>>
    /\ UNCHANGED <<pc, ran, dash, tmpDir, imgDirOk, pdfFile, panels, panelsClosed,
                   errsClosed, errsCap, wg, attempts, spawned, pngResult, pdfVars,
                   retVars>>

\* Mutant of WaitAndClose: wg.Wait() is missing, errs is closed at once.
WaitAndClose_NoWait ==
    /\ pc = "Wait"
    /\ errsClosed' = TRUE
    /\ pc' = "Drain"
    /\ UNCHANGED <<hdlVars, remote, budget, cleanLogged, ran, dash, fsVars, panels,
                   panelsClosed, errs, errsCap, wg, workVars, pngResult, pdfVars,
                   retVars>>

\* report.go:163-164: wg.Wait() returns once the counter is zero; close(errs).
WaitAndClose ==
    /\ pc = "Wait"
    /\ wg = 0
    /\ errsClosed' = TRUE
    /\ pc' = "Drain"
    /\ UNCHANGED <<hdlVars, remote, budget, cleanLogged, ran, dash, fsVars, panels, panelsClosed, errs, errsCap, wg,
                   workVars, pngResult, pdfVars, retVars>>

\* Mutant of DrainErr: the loop reads every error and returns the last one.
DrainErr_All ==
    /\ pc = "Drain"
    /\ errs # <<>>
    /\ errs' = <<>>
    /\ pngResult' = [ret |-> TRUE, err |-> errs[Len(errs)]]
    /\ Fail("png")
    /\ UNCHANGED <<hdlVars, remote, budget, cleanLogged, ran, dash, fsVars, panels,
                   panelsClosed, errsClosed, errsCap, wg, workVars, pdfVars>>

\* Mutant of DrainErr: Generate logs the error of renderPNGsParallel and goes
\* on to renderPDF.
DrainErr_GoOn ==
    /\ pc = "Drain"
    /\ errs # <<>>
    /\ errs' = Tail(errs)
    /\ pngResult' = [ret |-> TRUE, err |-> Head(errs)]
    /\ pc' = "PanelsFetched"
    /\ UNCHANGED <<hdlVars, remote, budget, cleanLogged, ran, dash, fsVars, panels,
                   panelsClosed, errsClosed, errsCap, wg, workVars, pdfVars, retVars>>

\* Mutant of DrainErr: Generate removes the scratch directory when the fetch
\* stage fails.
DrainErr_Cleanup ==
    /\ pc = "Drain"
    /\ errs # <<>>
    /\ errs' = Tail(errs)
    /\ pngResult' = [ret |-> TRUE, err |-> Head(errs)]
    /\ Fail("png")
    /\ tmpDir' = FALSE
    /\ imgDirOk' = FALSE
    /\ files' = [f \in Paths |-> "none"]
    /\ pdfFile' = FALSE
    /\ UNCHANGED <<hdlVars, remote, budget, cleanLogged, ran, dash, panels, panelsClosed,
                   errsClosed, errsCap, wg, workVars, pdfVars>>

\* Mutant of DrainErr: the nil test is inverted, so the error is read and
\* dropped and the loop goes on.
DrainErr_Swallow ==
    /\ pc = "Drain"
    /\ errs # <<>>
    /\ errs' = Tail(errs)
    /\ UNCHANGED <<hdlVars, remote, budget, cleanLogged, pc, ran, dash, fsVars, panels,
                   panelsClosed, errsClosed, errsCap, wg, workVars, pngResult,
                   pdfVars, retVars>>

\* report.go:166-170 and 104-107: receive one error from errs; every error a
\* worker sends is non-nil, so the loop returns it and Generate fails.
DrainErr ==
    /\ pc = "Drain"
    /\ errs # <<>>
    /\ errs' = Tail(errs)
    /\ pngResult' = [ret |-> TRUE, err |-> Head(errs)]
    /\ Fail("png")
    /\ UNCHANGED <<hdlVars, remote, budget, cleanLogged, ran, dash, fsVars, panels, panelsClosed, errsClosed, errsCap,
                   wg, workVars, pdfVars>>

\* report.go:166,171: the range over the closed, empty errs ends; return nil.
DrainEnd ==
    /\ pc = "Drain"
    /\ errs = <<>>
    /\ errsClosed
    /\ pngResult' = [ret |-> TRUE, err |-> <<>>]
    /\ pc' = "PanelsFetched"
    /\ UNCHANGED <<hdlVars, remote, budget, cleanLogged, ran, dash, fsVars, chanVars, workVars, pdfVars, retVars>>

\* report.go:110-113, 235-239: NewPDF, then createHomePage adds the first page
\* (report.go:224) and writes the dashboard title and time range on it.
NewPDF ==
    /\ pc = "PanelsFetched"
    /\ ran' = Append(ran, "renderPDF")
    /\ \/ /\ pages' = 1
          /\ placed' = <<>>
          /\ count' = 0
          /\ pc' = "Assembling"
          /\ UNCHANGED retVars
       \/ \* AddTTFFont or SetFont failed
          /\ Fail("pdf")
          /\ UNCHANGED pdfVars
    /\ UNCHANGED <<hdlVars, remote, budget, cleanLogged, dash, fsVars, chanVars, workVars,
                   pngResult>>

\* Mutant of Placement: the two bands are swapped.
Placement_Swapped(p, c, n, imgOk) ==
    [panel |-> p, page |-> n, band |-> (c + 1) % 2, title |-> TRUE, image |-> imgOk]

\* report.go:257-268: where the loop draws the panel when the counter is c and
\* the document has n pages: on the current (last) page, top band for an even
\* counter and bottom band for an odd one.
Placement(p, c, n, imgOk) ==
    [panel |-> p, page |-> n, band |-> c % 2, title |-> TRUE, image |-> imgOk]

\* Mutant of PagesAfter: AddPage sits in the even-counter branch.
PagesAfter_Even(c, n) == IF c % 2 = 0 THEN n + 1 ELSE n

\* Mutant of PagesAfter: AddPage is called after every panel.
PagesAfter_Every(c, n) == n + 1

\* report.go:267: AddPage only in the odd-counter branch.
PagesAfter(c, n) == IF c % 2 = 0 THEN n ELSE n + 1

\* Mutant of PlacePanel: the loop walks the panels in the order their images
\* arrived, which is another order than the Dashboard's whenever the fetches
\* completed out of order (here: the reverse).
PlacePanel_ArrivalOrder ==
    /\ pc = "Assembling"
    /\ count < Len(dash)
    /\ LET p == IF outOfOrder THEN dash[Len(dash) - count] ELSE dash[count + 1]
       IN  \E imgOk \in (IF files[imgFilePath(p)] = "full" THEN BOOLEAN ELSE {FALSE}) :
              placed' = Append(placed, Placement(p, count, pages, imgOk))
    /\ pages' = PagesAfter(count, pages)
    /\ count' = count + 1
    /\ UNCHANGED <<hdlVars, remote, budget, cleanLogged, pc, ran, dash, fsVars,
                   chanVars, workVars, pngResult, retVars>>

\* Mutant of PlacePanel: the error of pdf.Image is returned by renderPDF.
PlacePanel_Fatal ==
    /\ pc = "Assembling"
    /\ count < Len(dash)
    /\ \E imgOk \in (IF files[imgFilePath(dash[count + 1])] = "full" THEN BOOLEAN ELSE {FALSE}) :
          /\ placed' = Append(placed, Placement(dash[count + 1], count, pages, imgOk))
          /\ IF imgOk THEN UNCHANGED <<pc, retVars>> ELSE Fail("pdf")
    /\ pages' = PagesAfter(count, pages)
    /\ count' = count + 1
    /\ UNCHANGED <<hdlVars, remote, budget, cleanLogged, ran, dash, fsVars, chanVars,
                   workVars, pngResult>>

\* report.go:247-275: one iteration of the panel loop.  pdf.Image can only
\* succeed on a complete image file; its error is logged and dropped.
PlacePanel ==
    /\ pc = "Assembling"
    /\ count < Len(dash)
    /\ \E imgOk \in (IF files[imgFilePath(dash[count + 1])] = "full" THEN BOOLEAN ELSE {FALSE}) :
          placed' = Append(placed, Placement(dash[count + 1], count, pages, imgOk))
    /\ pages' = PagesAfter(count, pages)
    /\ count' = count + 1
    /\ UNCHANGED <<hdlVars, remote, budget, cleanLogged, pc, ran, dash, fsVars, chanVars,
                   workVars, pngResult, retVars>>

\* report.go:278: WritePdf reports no error, so the file may or may not be there.
WritePdf ==
    /\ pc = "Assembling"
    /\ count = Len(dash)
    /\ pdfFile' \in BOOLEAN
    /\ pc' = "DocumentAssembled"
    /\ UNCHANGED <<hdlVars, remote, budget, cleanLogged, ran, dash, tmpDir, imgDirOk, files,
                   chanVars, workVars, pngResult, pdfVars, retVars>>

\* report.go:279-280, 111-114: os.Open of the written file.
OpenPdf ==
    /\ pc = "DocumentAssembled"
    /\ \/ /\ pdfFile
          /\ pc' = "Ready"
          /\ retPdf' = TRUE
          /\ retErr' = "none"
       \/ Fail("pdf")
    /\ UNCHANGED <<hdlVars, remote, budget, cleanLogged, ran, dash, fsVars, chanVars,
                   workVars, pngResult, pdfVars>>

\* Mutant of Clean: only the image directory is removed, and a RemoveAll
\* error is dropped without a log line.
Clean_ImagesOnly ==
    /\ pc \in {"Init", "Ready", "Failed"}
    /\ imgDirOk' = FALSE
    /\ files' = [f \in Paths |-> "none"]
    /\ UNCHANGED <<tmpDir, pdfFile, cleanLogged>>
    /\ UNCHANGED <<hdlVars, remote, budget, pc, ran, dash, chanVars, workVars,
                   pngResult, pdfVars, retVars>>

\* report.go:118-123: Clean, called by the owner of the Report before Generate
\* or after it returned.  RemoveAll of a missing directory succeeds; a failing
\* RemoveAll is logged and leaves tmpDir, with or without its contents.
Clean ==
    /\ pc \in {"Init", "Ready", "Failed"}
    /\ \/ /\ tmpDir' = FALSE
          /\ imgDirOk' = FALSE
          /\ files' = [f \in Paths |-> "none"]
          /\ pdfFile' = FALSE
          /\ UNCHANGED cleanLogged
       \/ /\ tmpDir
          /\ cleanLogged' = TRUE
          /\ UNCHANGED tmpDir
          /\ \/ UNCHANGED <<imgDirOk, files, pdfFile>>
             \/ /\ imgDirOk' = FALSE
                /\ files' = [f \in Paths |-> "none"]
                /\ pdfFile' = FALSE
    /\ UNCHANGED <<hdlVars, remote, budget, pc, ran, dash, chanVars, workVars, pngResult,
                   pdfVars, retVars>>

Next ==
    \/ GetDashboard
    \/ MkdirAll
    \/ StartFetch
    \/ SpawnWorker
    \/ \E w \in Workers : WorkerReceive(w)
    \/ \E w \in Workers : WorkerExit(w)
    \/ \E w \in Workers, o \in Outcomes : RenderReturn(w, o)
    \/ WaitAndClose
    \/ DrainErr
    \/ DrainEnd
    \/ NewPDF
    \/ PlacePanel
    \/ WritePdf
    \/ OpenPdf
    \/ Clean

Spec == Init /\ [][Next]_vars

SpecPool == InitPool /\ [][Next]_vars

\* report.go:149-170: the steps of the goroutine that runs renderPNGsParallel
\* from the first go statement on.
Coordinator == SpawnWorker \/ WaitAndClose \/ DrainErr \/ DrainEnd

\* report.go:151-162: the steps of worker goroutine w; RenderReturn is the
\* return of the renderPNG call it is in.
WorkerStep(w) ==
    \/ WorkerReceive(w)
    \/ WorkerExit(w)
    \/ \E o \in Outcomes : RenderReturn(w, o)

\* The Go scheduler runs every goroutine that can take a step, and every
\* renderPNG call returns.
Fairness ==
    /\ WF_vars(Coordinator)
    /\ \A w \in Workers : WF_vars(WorkerStep(w))

SpecLive == InitLive /\ [][Next]_vars /\ Fairness

\* ------------------------------------------------------------------ claims

\* The document is complete: the panel loop has ended and the file is written.
DocumentDone == pc \in {"DocumentAssembled", "Ready"}

\* ceil(n / 2) and floor(n / 2)
CeilHalf(n) == (n + 1) \div 2
FloorHalf(n) == n \div 2

\* C1 as stated: a document of N panels has exactly 1 + ceil(N/2) pages.
C1_PagesCeil ==
    DocumentDone => pages = 1 + CeilHalf(Len(dash))

\* C1, amended: a document of N panels has exactly 1 + floor(N/2) pages: the
\* first two panels are drawn on the page createHomePage added, and a page is
\* added after every second panel (N = 0 and N = 1 give 1 page, N = 2 and
\* N = 3 give 2 pages).
C1_PagesFloor ==
    DocumentDone => pages = 1 + FloorHalf(Len(dash))

\* A document of three panels is complete and has two pages.
C1_Witness ==
    /\ pc = "Ready"
    /\ Len(dash) = 3
    /\ pages = 2

\* C2 as stated: panel i (0-based) is drawn in band i mod 2 on the
\* (i div 2)-th page after the cover page, which holds no panel.
C2_AfterCover ==
    \A k \in 1..Len(placed) :
        /\ placed[k].panel = dash[k]
        /\ placed[k].band = (k - 1) % 2
        /\ placed[k].page = 2 + (k - 1) \div 2

\* C2, amended: panel i (0-based, Dashboard order) has its title cell and
\* image in band i mod 2 on page 1 + i div 2, where page 1 is the page that
\* createHomePage added: panels 0 and 1 are on the cover page itself, panels
\* 2 and 3 on the next page, and so on.
C2_Layout ==
    /\ Len(placed) = count
    /\ \A k \in 1..Len(placed) :
        /\ placed[k].panel = dash[k]
        /\ placed[k].title
        /\ placed[k].band = (k - 1) % 2
        /\ placed[k].page = 1 + (k - 1) \div 2

\* Three panels are placed: the first two on page 1, the third on top of page 2.
C2_Witness ==
    /\ Len(placed) = 3
    /\ placed[1].page = 1 /\ placed[1].band = 0
    /\ placed[2].page = 1 /\ placed[2].band = 1
    /\ placed[3].page = 2 /\ placed[3].band = 0

\* The panels of the dashboard, as a set of IDs.
DashPanels == {dash[i] : i \in 1..Len(dash)}

\* C3: no panel is ever passed to renderPNG twice, and when the fetch stage
\* returns without any failure every panel of the Dashboard has been passed to
\* renderPNG exactly once (and no other panel has).
C3_ExactlyOnce ==
    /\ \A p \in PanelIDs : attempts[p] <= 1
    /\ (pngResult.ret /\ failures = 0) =>
          \A p \in PanelIDs : attempts[p] = (IF p \in DashPanels THEN 1 ELSE 0)

\* The stage returned without failure for a dashboard of at least two panels,
\* fewer than there are workers.
C3_Witness ==
    /\ pngResult.ret
    /\ failures = 0
    /\ Len(dash) >= 2
    /\ \A p \in DashPanels : attempts[p] = 1

\* The panels whose renderPNG call returned an error.
FailedPanels == {p \in PanelIDs : logged[p] # <<>>}

\* C4: renderPNGsParallel returns nil iff every panel's renderPNG succeeded;
\* otherwise it returns an error that a failing panel's renderPNG produced.
C4_Aggregate ==
    pngResult.ret =>
        /\ (pngResult.err = <<>>) <=>
              (\A p \in DashPanels : attempts[p] = 1 /\ logged[p] = <<>>)
        /\ pc = "PanelsFetched" => \A p \in DashPanels : files[imgFilePath(p)] = "full"
        /\ pngResult.err # <<>> =>
              /\ pngResult.err[1] \in FailedPanels \cap DashPanels
              /\ logged[pngResult.err[1]] = <<pngResult.err[2]>>

\* Two panels failed and the error of one of them was returned.
C4_Witness ==
    /\ pngResult.ret
    /\ Cardinality(FailedPanels) = 2
    /\ pngResult.err # <<>>
    /\ pngResult.err[1] \in FailedPanels

\* C5 as stated: when renderPNGsParallel has returned, no error is left
\* unread in errs.
C5_FullyDrained ==
    pngResult.ret => errs = <<>>

\* C5, amended: when renderPNGsParallel has returned, errs was closed after
\* the join and the coordinator has received at most one error from it, the
\* one it returns: with k >= 1 failed panels k - 1 errors are left unread in
\* the closed channel, and none is left only when at most one panel failed.
C5_DrainedToFirst ==
    pngResult.ret =>
        /\ errsClosed
        /\ wg = 0
        /\ Len(errs) = (IF failures = 0 THEN 0 ELSE failures - 1)
        /\ \A i \in 1..Len(errs) :
              /\ errs[i][1] \in FailedPanels
              /\ errs[i] # pngResult.err

\* Two panels failed; one error was returned and the other is still in errs.
C5_Witness ==
    /\ pngResult.ret
    /\ failures = 2
    /\ Len(errs) = 1
    /\ pngResult.err # <<>>

\* The workers have all left their loop.
AllWorkersDone == \A w \in Workers : wpc[w] = "done"

\* C6: a failing fetch stops nothing: when the fetch stage returns, with or
\* without failures, every panel of the Dashboard has been pulled from the
\* queue and passed to renderPNG exactly once, every call has returned and
\* every worker has terminated.
C6_NoEarlyStop ==
    /\ \A p \in PanelIDs : attempts[p] <= 1
    /\ pngResult.ret =>
          /\ panels = <<>>
          /\ \A p \in DashPanels : attempts[p] = 1
          /\ failures = Cardinality(FailedPanels)
          /\ AllWorkersDone
          /\ \A w \in Workers : wp[w] = 0

\* The first panel pulled from the queue failed, the stage has returned a
\* failure, and the other panels were fetched all the same.
C6_Witness ==
    /\ pc = "Failed"
    /\ retErr = "png"
    /\ Len(dash) >= 3
    /\ logged[dash[1]] # <<>>
    /\ \A i \in 2..Len(dash) : attempts[dash[i]] = 1 /\ files[imgFilePath(dash[i])] = "full"

\* The workers inside a renderPNG call that has started and not returned.
InFlight == {w \in DOMAIN wpc : wpc[w] = "render"}

\* C7: at most 5 renderPNG calls are in flight at any moment, each for a
\* different panel, and none is in flight outside the fetch stage.
C7_BoundedInFlight ==
    /\ Cardinality(InFlight) <= 5
    /\ \A v, w \in InFlight : wp[v] = wp[w] => v = w
    /\ pc \notin {"Spawn", "Wait"} => InFlight = {}

\* Five calls are in flight and a sixth panel waits in the queue.
C7_Witness ==
    /\ Cardinality(InFlight) = 5
    /\ Len(panels) >= 1

\* The stages of Generate in call order.
Stages == <<"GetDashboard", "MkdirAll", "renderPNGsParallel", "renderPDF">>

\* How many stages have been called at each position of Generate, and the
\* error Generate returns when the last of them fails.
StagesAt(p) ==
    CASE p = "Init" -> {0}
      [] p = "DashboardFetched" -> {1}
      [] p = "StoreReady" -> {2}
      [] p \in {"Spawn", "Wait", "Drain", "PanelsFetched"} -> {3}
      [] p \in {"Assembling", "DocumentAssembled", "Ready"} -> {4}
      [] p = "Failed" -> 1..4

ErrOf == <<"dashboard", "mkdir", "png", "pdf">>

\* C8: Generate is a linear stage machine: the stages are called in order, each
\* at most once and only after the earlier ones succeeded; a failing stage
\* ends the run in Failed with that stage's error and no later stage called; a
\* document handle is returned only in Ready, never with an error.  A failed
\* fetch stage means renderPDF is never run and no document exists.
C8_LinearStages ==
    /\ Len(ran) \in StagesAt(pc)
    /\ ran = SubSeq(Stages, 1, Len(ran))
    /\ pc = "Failed" => retErr = ErrOf[Len(ran)] /\ ~retPdf
    /\ pc # "Failed" => retErr = "none"
    /\ retPdf <=> pc = "Ready"
    /\ Len(ran) >= 2 => dash = remote
    /\ Len(ran) >= 4 => pngResult.ret /\ pngResult.err = <<>>
    /\ (pngResult.ret /\ pngResult.err # <<>>) =>
          /\ pc = "Failed"
          /\ retErr = "png"
          /\ pages = 0 /\ placed = <<>> /\ ~pdfFile

\* The fetch stage failed: Generate is in Failed after three stages.
C8_Witness ==
    /\ pc = "Failed"
    /\ retErr = "png"
    /\ ran = <<"GetDashboard", "MkdirAll", "renderPNGsParallel">>

\* C9: if GetDashboard fails, Generate returns its failure with no local
\* state created: no scratch directory, no image directory, no file, and no
\* panel fetch or worker started.
C9_NoLocalState ==
    retErr = "dashboard" =>
        /\ pc = "Failed"
        /\ ~tmpDir /\ ~imgDirOk /\ ~pdfFile
        /\ \A p \in PanelIDs : files[imgFilePath(p)] = "none" /\ attempts[p] = 0
        /\ \A w \in Workers : wpc[w] = "none"
        /\ ran = <<"GetDashboard">>

\* Generate has failed on GetDashboard.
C9_Witness ==
    /\ pc = "Failed"
    /\ retErr = "dashboard"
    /\ ~retPdf

\* A step that removes something from the scratch area: a directory or the
\* document disappears, or a complete or partial image is lost.
Removes ==
    \/ tmpDir /\ ~tmpDir'
    \/ imgDirOk /\ ~imgDirOk'
    \/ pdfFile /\ ~pdfFile'
    \/ \E f \in DOMAIN files : files[f] # "none" /\ files'[f] # files[f]

\* C10: no step of Generate removes anything from the scratch area: only a
\* Clean call does.  So the images fetched before a failure, and the document
\* after a success, stay until Clean.
C10_OnlyCleanRemoves ==
    [][Removes => Clean]_vars

\* The fetch stage failed for a 2-panel dashboard on its second panel and the
\* first panel's image is still in the image directory.
C10_Witness ==
    /\ pc = "Failed"
    /\ retErr = "png"
    /\ Len(dash) = 2
    /\ logged[dash[2]] # <<>>
    /\ files[imgFilePath(dash[1])] = "full"
    /\ tmpDir /\ imgDirOk

\* C11 as stated: after any Clean call the scratch area does not exist.
C11_AlwaysRemoved ==
    [][Clean => ~tmpDir']_vars

\* C11, amended: Clean can be called before Generate and after it returned,
\* whatever the outcome, and returns nothing to the caller: it changes neither
\* the position nor the result of Generate.  When os.RemoveAll succeeds the
\* scratch area does not exist afterwards; when it fails the error is logged
\* and the area is still there.  A Clean on a missing area changes nothing.
C11_CleanTotal ==
    /\ [](pc \in {"Init", "Ready", "Failed"} => ENABLED Clean)
    /\ [][Clean =>
            /\ UNCHANGED <<pc, ran, dash, retVars, pngResult, pdfVars>>
            /\ tmpDir' => cleanLogged'
            /\ ~tmpDir' => ~imgDirOk' /\ ~pdfFile'
                            /\ \A p \in PanelIDs : files'[imgFilePath(p)] = "none"
            /\ ~tmpDir => UNCHANGED vars]_vars

\* Clean has removed the scratch area of a run whose fetch stage failed.
C11_Witness ==
    /\ pc = "Failed"
    /\ retErr = "png"
    /\ ~tmpDir
    /\ \A p \in PanelIDs : files[imgFilePath(p)] = "none"
    /\ ~cleanLogged

\* C12: a failing image placement is not fatal.  Whatever pdf.Image returns,
\* an iteration of the panel loop draws the panel's title cell in the band of
\* the counter on the current page, increments the counter, advances the page
\* as for a successful placement and stays in the loop, with no error set.
C12_PlacementNotFatal ==
    [][(pc = "Assembling" /\ count < Len(dash)) =>
          /\ pc' = "Assembling"
          /\ retErr' = "none"
          /\ count' = count + 1
          /\ Len(placed') = count'
          /\ placed'[count'].title
          /\ placed'[count'].panel = dash[count']
          /\ placed'[count'].band = count % 2
          /\ placed'[count'].page = pages
          /\ pages' = pages + (count % 2)
          /\ SubSeq(placed', 1, count) = placed]_vars

\* The image of the first of three panels could not be placed; the two later
\* panels were placed and the document was produced.
C12_Witness ==
    /\ pc = "Ready"
    /\ retPdf
    /\ Len(placed) = 3
    /\ ~placed[1].image
    /\ placed[2].image /\ placed[3].image
    /\ pages = 2

\* The layout a Dashboard's panel list d determines by itself: panel k of the
\* list (1-based) in band (k - 1) mod 2 of page 1 + (k - 1) div 2.
LayoutOf(d) ==
    [k \in 1..Len(d) |->
        [panel |-> d[k], page |-> 1 + (k - 1) \div 2, band |-> (k - 1) % 2]]

\* The layout of the document: panel, page and band of each placement.
Layout ==
    [k \in 1..Len(placed) |->
        [panel |-> placed[k].panel, page |-> placed[k].page, band |-> placed[k].band]]

\* C13: the layout and the page count of the assembled document are those the
\* Dashboard's panel order determines, whatever the interleaving of the fetch
\* workers was and whether or not the fetches completed in Dashboard order.
C13_LayoutDeterministic ==
    DocumentDone =>
        /\ Layout = LayoutOf(remote)
        /\ pages = 1 + Len(remote) \div 2

\* A document of three panels is complete after a fetch stage in which a
\* panel's image arrived before the image of an earlier panel.
C13_Witness ==
    /\ pc = "Ready"
    /\ outOfOrder
    /\ Len(dash) = 3
    /\ Layout = LayoutOf(dash)

\* C14: every failing renderPNG call is logged once with its panel and error
\* before renderPNGsParallel returns: from the join on, the log holds exactly
\* one entry for each failed panel and none for the others, although only one
\* error is returned.
C14_EveryFailureLogged ==
    /\ \A p \in PanelIDs : Len(logged[p]) <= 1
    /\ \A i \in 1..Len(errs) : logged[errs[i][1]] = <<errs[i][2]>>
    /\ (pc = "Drain" \/ pngResult.ret) =>
          /\ Cardinality(FailedPanels) = failures
          /\ FailedPanels \subseteq DashPanels
    /\ pc = "Drain" =>
          \A p \in DashPanels : (logged[p] = <<>>) <=> (files[imgFilePath(p)] = "full")

\* Two panels failed; both are in the log and one error was returned.
C14_Witness ==
    /\ pngResult.ret
    /\ pngResult.err # <<>>
    /\ failures = 2
    /\ \E p, q \in DashPanels : p # q /\ Len(logged[p]) = 1 /\ Len(logged[q]) = 1

\* C15: the loop starts a new page exactly after each odd-counter placement:
\* after k panels it has added k div 2 pages to the one createHomePage made,
\* a bottom-band panel is followed by a panel on top of the next page and a
\* top-band panel by a panel at the bottom of the same page, and the page
\* added last holds no placement until the next panel is drawn.
C15_PageAdvance ==
    pc \in {"Assembling", "DocumentAssembled", "Ready"} =>
        /\ pages = 1 + count \div 2
        /\ \A k \in 1..Len(placed) : placed[k].page <= pages
        /\ (count > 0 /\ count % 2 = 0) =>
              \A k \in 1..Len(placed) : placed[k].page < pages
        /\ \A k \in 1..(Len(placed) - 1) :
              IF placed[k].band = 1
              THEN placed[k + 1].page = placed[k].page + 1 /\ placed[k + 1].band = 0
              ELSE placed[k + 1].page = placed[k].page /\ placed[k + 1].band = 1

\* The loop has drawn two of four panels and stands on the fresh second page.
C15_Witness ==
    /\ pc = "Assembling"
    /\ Len(dash) = 4
    /\ count = 2
    /\ pages = 2
    /\ placed[2].band = 1 /\ placed[2].page = 1

\* C16: errs is closed and read by the coordinator only after every worker
\* has terminated: while a worker is still running the channel is open and no
\* error has been received from it, and no worker ever sends on closed errs.
C16_DrainAfterJoin ==
    /\ \A w \in Workers : wpc[w] # "panic"
    /\ errsClosed => AllWorkersDone
    /\ (pc = "Drain" \/ pngResult.ret) => AllWorkersDone /\ errsClosed /\ wg = 0
    /\ ~AllWorkersDone => Len(errs) = failures

\* The coordinator has closed errs after the join and received an error from
\* it while another error is still buffered.
C16_Witness ==
    /\ AllWorkersDone
    /\ errsClosed
    /\ wg = 0
    /\ failures = 2
    /\ Len(errs) = 1
    /\ pngResult.err # <<>>

\* C17: no worker ever blocks on sending a failure: errs has capacity N, the
\* number of panels, never holds more than N errors, and every failure is in
\* it up to the join, even when all N panels fail.
C17_NeverBlocks ==
    /\ \A w \in Workers : wpc[w] # "blocked"
    /\ Len(errs) <= errsCap
    /\ Len(ran) >= 3 => errsCap = Len(dash)
    /\ pc \in {"Spawn", "Wait"} => Len(errs) = failures

\* Both panels of a 2-panel dashboard failed: errs is full before the join
\* and the two workers that failed went on.
C17_Witness ==
    /\ pc = "Wait"
    /\ Len(dash) = 2
    /\ Len(errs) = 2
    /\ errsCap = 2
    /\ \A w \in Workers : wpc[w] \in {"range", "done"}

\* imgFilePath gives different panel IDs different paths.
imgFilePathInjective ==
    \A p, q \in PanelIDs : imgFilePath(p) = imgFilePath(q) => p = q

\* C18: imgFilePath is injective in the panel ID, so the renderPNG calls in
\* flight, each for a different panel, write different paths, and no path is
\* written by two calls in one run.
C18_DisjointPaths ==
    /\ imgFilePathInjective
    /\ \A v, w \in InFlight : v # w => imgFilePath(wp[v]) # imgFilePath(wp[w])
    /\ \A p \in PanelIDs : attempts[p] <= 1

\* Three renderPNG calls are writing at the same moment.
C18_Witness ==
    /\ Cardinality(InFlight) = 3
    /\ Cardinality({imgFilePath(wp[w]) : w \in InFlight}) = 3

\* Every handle a renderPNG call opens is closed later in the same call.
ClosesAll(evs) ==
    /\ \A i \in 1..Len(evs) : evs[i] = "open body" =>
          \E j \in (i + 1)..Len(evs) : evs[j] = "close body"
    /\ \A i \in 1..Len(evs) : evs[i] = "open file" =>
          \E j \in (i + 1)..Len(evs) : evs[j] = "close file"

\* renderPNG closes what it opened, however it ends.
renderPNGClosesAll == \A o \in Outcomes : ClosesAll(renderPNG(o))

\* C19: renderPNG closes the body whenever it was opened and the file whenever
\* it was created, on every path, so no handle of a returned call is open,
\* and none at all once the fetch stage has returned.
C19_HandlesReleased ==
    /\ renderPNGClosesAll
    /\ openBody = 0
    /\ openFile = 0
    /\ pngResult.ret => InFlight = {}

\* The stage has returned after one call failed in os.Create and another in
\* io.Copy; no handle is open.
C19_Witness ==
    /\ pngResult.ret
    /\ \E p, q \in DashPanels : logged[p] = <<"create">> /\ logged[q] = <<"copy">>
    /\ openBody = 0
    /\ openFile = 0

\* C20: the fetch stage always terminates: once renderPNGsParallel has filled
\* and closed the queue, it eventually returns, for every panel count and any
\* mix of successes and failures, given fair scheduling of the goroutines and
\* renderPNG calls that return.
C20_FetchTerminates == (pc = "Spawn") ~> pngResult.ret

\* renderPNGsParallel has returned for a dashboard without panels: all five
\* workers found the queue empty and closed, and exited.
C20_Witness ==
    /\ pngResult.ret
    /\ Len(ran) >= 3
    /\ Len(dash) = 0
    /\ AllWorkersDone
    /\ wg = 0
====
